---- MODULE Spec2Model ----
(***************************************************************************)
(* MoneyLeaks statement-to-ledger pipeline (lib/transactions.ts and the    *)
(* analysis route that drives it).                                         *)
(*                                                                         *)
(* Strings are TLA+ strings, handled with Len, SubSeq and \o, so that      *)
(* trimming, splitting, cleaning, number parsing and keyword search are    *)
(* computed character by character as the code computes them.              *)
(* A JavaScript number is held as an exact decimal [nan, m, e] standing    *)
(* for m / 10^e (or for NaN): sums are exact, where the code's IEEE        *)
(* doubles round.                                                          *)
(***************************************************************************)
EXTENDS Integers, Sequences, FiniteSets, TLC

VARIABLES
    pc,         \* position of the operation under study: "init" or "done"
    tx,         \* categorizeTransaction: the argument
    catResult,  \* categorizeTransaction: the returned transaction
    txs,        \* computeSummary: the argument
    summary,    \* computeSummary: the returned summary
    row,        \* mapRowToTransaction: the argument
    mapped,     \* mapRowToTransaction: the returned transaction or Null
    request,    \* POST: the request's form data
    today,      \* POST: the processing date, new Date() as YYYY-MM-DD
    rows,       \* POST: the local `rows` when the handler returns
    response,   \* POST: the response returned
    twin,       \* a second run of POST on the same request: its date and response
    page,       \* HomePage: the useState cells of the component
    analyzeCall, \* HomePage: the fetch of handleAnalyze in flight, or Null
    adviceCall  \* HomePage: the fetch of handleGetAdvice in flight, or Null

vars == <<pc, tx, catResult, txs, summary, row, mapped, request, today, rows, response,
          twin, page, analyzeCall, adviceCall>>

(***************************************************************************)
(* String helpers: the JavaScript string methods the code calls.           *)
(***************************************************************************)
Char(s, i) == SubSeq(s, i, i)

UpperAlpha == "ABCDEFGHIJKLMNOPQRSTUVWXYZ"
LowerAlpha == "abcdefghijklmnopqrstuvwxyz"
Digits == "0123456789"

\* String.prototype.includes
Includes(s, k) ==
    \E i \in 1..(Len(s) - Len(k) + 1) : SubSeq(s, i, i + Len(k) - 1) = k

\* String.prototype.startsWith
StartsWith(s, k) == Len(k) <= Len(s) /\ SubSeq(s, 1, Len(k)) = k

\* String.prototype.endsWith
EndsWith(s, k) == Len(k) <= Len(s) /\ SubSeq(s, Len(s) - Len(k) + 1, Len(s)) = k

LowerChar(c) ==
    IF \E i \in 1..Len(UpperAlpha) : Char(UpperAlpha, i) = c
    THEN Char(LowerAlpha, CHOOSE i \in 1..Len(UpperAlpha) : Char(UpperAlpha, i) = c)
    ELSE c

RECURSIVE ToLowerCase(_)
\* String.prototype.toLowerCase
ToLowerCase(s) ==
    IF s = "" THEN "" ELSE LowerChar(Char(s, 1)) \o ToLowerCase(SubSeq(s, 2, Len(s)))

IsDigit(c) == Includes(Digits, c) /\ Len(c) = 1
IsWordChar(c) ==
    Len(c) = 1 /\ (Includes(Digits, c) \/ Includes(UpperAlpha, c)
                   \/ Includes(LowerAlpha, c) \/ c = "_")
IsSpace(c) == c \in {" ", "\t", "\n", "\r"}

RECURSIVE TrimStart(_)
TrimStart(s) ==
    IF s # "" /\ IsSpace(Char(s, 1)) THEN TrimStart(SubSeq(s, 2, Len(s))) ELSE s

RECURSIVE TrimEnd(_)
TrimEnd(s) ==
    IF s # "" /\ IsSpace(Char(s, Len(s))) THEN TrimEnd(SubSeq(s, 1, Len(s) - 1)) ELSE s

\* String.prototype.trim
Trim(s) == TrimEnd(TrimStart(s))

(***************************************************************************)
(* Types of lib/transactions.ts.                                           *)
(***************************************************************************)
TransactionType == {"DEBIT", "CREDIT"}

Category ==
    {"INCOME", "RENT", "GROCERIES", "FOOD_DELIVERY", "SHOPPING", "TRANSPORT",
     "UTILITIES", "SUBSCRIPTION", "BANK_FEES", "TRANSFER", "OTHER"}

(***************************************************************************)
(* categorizeTransaction: the keyword alternatives of each regular         *)
(* expression, tested against the lower-cased description.                 *)
(***************************************************************************)
SubscriptionKeywords ==
    {"netflix", "spotify", "youtube premium", "hotstar", "prime", "zee5",
     "subscription", "renewal"}
FoodDeliveryKeywords == {"swiggy", "zomato", "blinkit", "eats", "foodpanda"}
RentKeywords == {"rent"}
GroceriesKeywords ==
    {"big bazaar", "d-mart", "dmart", "grofers", "grocery", "more supermarket",
     "reliance fresh"}
ShoppingKeywords == {"amazon", "flipkart", "myntra", "ajio", "nykaa"}
TransportKeywords == {"uber", "ola", "rapido", "metro", "bus", "auto", "cab"}
UtilitiesKeywords ==
    {"electricity", "water bill", "gas bill", "mobile bill", "postpaid",
     "prepaid", "wifi", "broadband", "jio", "airtel"}
BankFeesKeywords ==
    {"charge", "fee", "penalty", "fine", "interest", "late fee", "bank charge",
     "annual fee"}
TransferKeywords ==
    {"neft", "rtgs", "imps", "upi", "transfer", "to account", "from account"}

\* RegExp.prototype.test for a pattern that is an alternation of literals
TestAny(keywords, desc) == \E k \in keywords : Includes(desc, k)

WithCategory(t, c) == [t EXCEPT !.category = c]

\* categorizeTransaction with the CREDIT test placed after the keyword rules
categorizeTransaction_CreditLast(t) ==
    LET desc == ToLowerCase(t.description) IN
    IF TestAny(SubscriptionKeywords, desc) THEN WithCategory(t, "SUBSCRIPTION")
    ELSE IF TestAny(FoodDeliveryKeywords, desc) THEN WithCategory(t, "FOOD_DELIVERY")
    ELSE IF TestAny(RentKeywords, desc) THEN WithCategory(t, "RENT")
    ELSE IF TestAny(GroceriesKeywords, desc) THEN WithCategory(t, "GROCERIES")
    ELSE IF TestAny(ShoppingKeywords, desc) THEN WithCategory(t, "SHOPPING")
    ELSE IF TestAny(TransportKeywords, desc) THEN WithCategory(t, "TRANSPORT")
    ELSE IF TestAny(UtilitiesKeywords, desc) THEN WithCategory(t, "UTILITIES")
    ELSE IF TestAny(BankFeesKeywords, desc) THEN WithCategory(t, "BANK_FEES")
    ELSE IF TestAny(TransferKeywords, desc) THEN WithCategory(t, "TRANSFER")
    ELSE IF t.type = "CREDIT" THEN WithCategory(t, "INCOME")
    ELSE t

\* categorizeTransaction without the food-delivery rule
categorizeTransaction_NoFoodRule(t) ==
    LET desc == ToLowerCase(t.description) IN
    IF t.type = "CREDIT" THEN WithCategory(t, "INCOME")
    ELSE IF TestAny(SubscriptionKeywords, desc) THEN WithCategory(t, "SUBSCRIPTION")
    ELSE IF TestAny(RentKeywords, desc) THEN WithCategory(t, "RENT")
    ELSE IF TestAny(GroceriesKeywords, desc) THEN WithCategory(t, "GROCERIES")
    ELSE IF TestAny(ShoppingKeywords, desc) THEN WithCategory(t, "SHOPPING")
    ELSE IF TestAny(TransportKeywords, desc) THEN WithCategory(t, "TRANSPORT")
    ELSE IF TestAny(UtilitiesKeywords, desc) THEN WithCategory(t, "UTILITIES")
    ELSE IF TestAny(BankFeesKeywords, desc) THEN WithCategory(t, "BANK_FEES")
    ELSE IF TestAny(TransferKeywords, desc) THEN WithCategory(t, "TRANSFER")
    ELSE t

\* categorizeTransaction with the SHOPPING rule placed before the SUBSCRIPTION rule
categorizeTransaction_ShoppingFirst(t) ==
    LET desc == ToLowerCase(t.description) IN
    IF t.type = "CREDIT" THEN WithCategory(t, "INCOME")
    ELSE IF TestAny(ShoppingKeywords, desc) THEN WithCategory(t, "SHOPPING")
    ELSE IF TestAny(SubscriptionKeywords, desc) THEN WithCategory(t, "SUBSCRIPTION")
    ELSE IF TestAny(FoodDeliveryKeywords, desc) THEN WithCategory(t, "FOOD_DELIVERY")
    ELSE IF TestAny(RentKeywords, desc) THEN WithCategory(t, "RENT")
    ELSE IF TestAny(GroceriesKeywords, desc) THEN WithCategory(t, "GROCERIES")
    ELSE IF TestAny(TransportKeywords, desc) THEN WithCategory(t, "TRANSPORT")
    ELSE IF TestAny(UtilitiesKeywords, desc) THEN WithCategory(t, "UTILITIES")
    ELSE IF TestAny(BankFeesKeywords, desc) THEN WithCategory(t, "BANK_FEES")
    ELSE IF TestAny(TransferKeywords, desc) THEN WithCategory(t, "TRANSFER")
    ELSE t

categorizeTransaction(t) ==
    LET desc == ToLowerCase(t.description) IN
    IF t.type = "CREDIT" THEN WithCategory(t, "INCOME")
    ELSE IF TestAny(SubscriptionKeywords, desc) THEN WithCategory(t, "SUBSCRIPTION")
    ELSE IF TestAny(FoodDeliveryKeywords, desc) THEN WithCategory(t, "FOOD_DELIVERY")
    ELSE IF TestAny(RentKeywords, desc) THEN WithCategory(t, "RENT")
    ELSE IF TestAny(GroceriesKeywords, desc) THEN WithCategory(t, "GROCERIES")
    ELSE IF TestAny(ShoppingKeywords, desc) THEN WithCategory(t, "SHOPPING")
    ELSE IF TestAny(TransportKeywords, desc) THEN WithCategory(t, "TRANSPORT")
    ELSE IF TestAny(UtilitiesKeywords, desc) THEN WithCategory(t, "UTILITIES")
    ELSE IF TestAny(BankFeesKeywords, desc) THEN WithCategory(t, "BANK_FEES")
    ELSE IF TestAny(TransferKeywords, desc) THEN WithCategory(t, "TRANSFER")
    ELSE t

(***************************************************************************)
(* Numbers: exact decimals m / 10^e in lowest form, or NaN.                *)
(***************************************************************************)
NaN == [nan |-> TRUE, m |-> 0, e |-> 0]

RECURSIVE Pow10(_)
Pow10(n) == IF n = 0 THEN 1 ELSE 10 * Pow10(n - 1)

RECURSIVE Dec(_, _)
\* the decimal m / 10^e, trailing fraction zeros removed
Dec(m, e) ==
    IF e > 0 /\ m % 10 = 0 THEN Dec(m \div 10, e - 1)
    ELSE [nan |-> FALSE, m |-> m, e |-> e]

Zero == Dec(0, 0)

Max(a, b) == IF a >= b THEN a ELSE b

\* a + b
Add(a, b) ==
    IF a.nan \/ b.nan THEN NaN
    ELSE LET e == Max(a.e, b.e) IN
         Dec(a.m * Pow10(e - a.e) + b.m * Pow10(e - b.e), e)

\* a - b
Sub(a, b) == IF a.nan \/ b.nan THEN NaN ELSE Add(a, Dec(0 - b.m, b.e))

\* Math.abs
Abs(a) == IF a.nan THEN NaN ELSE Dec(IF a.m < 0 THEN 0 - a.m ELSE a.m, a.e)

\* a < 0
IsNegative(a) == ~a.nan /\ a.m < 0

\* !a for a number: true of 0 and of NaN
IsFalsyNumber(a) == a.nan \/ a.m = 0

RECURSIVE DigitsValue(_)
\* the value of a string of decimal digits
DigitsValue(s) ==
    IF s = "" THEN 0
    ELSE 10 * DigitsValue(SubSeq(s, 1, Len(s) - 1))
         + ((CHOOSE i \in 1..10 : Char(Digits, i) = Char(s, Len(s))) - 1)

RECURSIVE Remove(_, _)
\* s without its occurrences of the character c
Remove(s, c) ==
    IF s = "" THEN ""
    ELSE (IF Char(s, 1) = c THEN "" ELSE Char(s, 1)) \o Remove(SubSeq(s, 2, Len(s)), c)

\* Number(s) for a string s of the characters 0-9 . - only:
\* "" is 0; -?(digits[.digits] | .digits) is its value; the rest is NaN
ToNumber(s) ==
    IF s = "" THEN Zero
    ELSE LET neg  == Char(s, 1) = "-"
             body == IF neg THEN SubSeq(s, 2, Len(s)) ELSE s
             digs == Remove(body, ".")
             frac == IF Includes(body, ".")
                     THEN Len(body) - (CHOOSE i \in 1..Len(body) : Char(body, i) = ".")
                     ELSE 0
         IN  IF Includes(body, "-") \/ Len(body) - Len(digs) > 1 \/ digs = ""
             THEN NaN
             ELSE Dec((IF neg THEN 0 - 1 ELSE 1) * DigitsValue(digs), frac)

RECURSIVE CleanAmount(_)
\* amountStr.replace(/[^0-9.-]/g, "")
CleanAmount(s) ==
    IF s = "" THEN ""
    ELSE (IF IsDigit(Char(s, 1)) \/ Char(s, 1) \in {".", "-"} THEN Char(s, 1) ELSE "")
         \o CleanAmount(SubSeq(s, 2, Len(s)))

(***************************************************************************)
(* Rows: Record<string, string>, a sequence of [key, value] in the order   *)
(* the properties were created.                                            *)
(***************************************************************************)
EmptyRow == << >>

HasKey(r, k) == \E i \in 1..Len(r) : r[i].key = k

\* r[k] = v
SetProp(r, k, v) ==
    IF HasKey(r, k)
    THEN [i \in 1..Len(r) |-> IF r[i].key = k THEN [key |-> k, value |-> v] ELSE r[i]]
    ELSE Append(r, [key |-> k, value |-> v])

\* r[k], with undefined read as "" (every use is an operand of ||)
Get(r, k) ==
    IF HasKey(r, k) THEN r[CHOOSE i \in 1..Len(r) : r[i].key = k].value ELSE ""

\* a || b on strings
OrElse(a, b) == IF a # "" THEN a ELSE b

\* a canonical array index ("0", "7", "12"): such keys are enumerated first,
\* in ascending numeric order (keys of ten digits and more are left out)
IsArrayIndex(k) ==
    /\ k # "" /\ Len(k) <= 9
    /\ \A i \in 1..Len(k) : IsDigit(Char(k, i))
    /\ (Len(k) > 1 => Char(k, 1) # "0")

\* the positions of r in property enumeration order
PropertyOrder(r) ==
    LET idx == {i \in 1..Len(r) : IsArrayIndex(r[i].key)}
        str == {i \in 1..Len(r) : ~IsArrayIndex(r[i].key)}
        Before(i, j) ==
            IF i \in idx /\ j \in idx THEN DigitsValue(r[i].key) < DigitsValue(r[j].key)
            ELSE IF i \in idx THEN TRUE
            ELSE IF j \in idx THEN FALSE
            ELSE i < j
    IN  [n \in 1..Len(r) |->
            CHOOSE i \in 1..Len(r) :
                Cardinality({j \in 1..Len(r) : j # i /\ Before(j, i)}) = n - 1]

\* Object.values(r)[n], with undefined read as ""
ValueAt(r, n) ==
    IF n + 1 <= Len(r) THEN r[PropertyOrder(r)[n + 1]].value ELSE ""

(***************************************************************************)
(* mapRowToTransaction(row); now is new Date().toISOString().slice(0, 10)  *)
(***************************************************************************)
Null == [isNull |-> TRUE]
IsNull(t) == "isNull" \in DOMAIN t

RowDescription(r) ==
    OrElse(Get(r, "Description"),
    OrElse(Get(r, "Transaction Details"),
    OrElse(Get(r, "Narration"),
    OrElse(Get(r, "details"),
    OrElse(ValueAt(r, 1), "")))))

RowAmountStr(r) ==
    OrElse(Get(r, "Amount"),
    OrElse(Get(r, "Withdrawal Amt."),
    OrElse(Get(r, "Debit"),
    OrElse(Get(r, "DEBIT"),
    OrElse(Get(r, "Deposit Amt."),
    OrElse(Get(r, "Credit"),
    OrElse(Get(r, "CREDIT"),
    OrElse(ValueAt(r, 2), "0"))))))))

RowTypeField(r) ==
    ToLowerCase(
        OrElse(Get(r, "Credit/Debit"),
        OrElse(Get(r, "Cr/Dr"),
        OrElse(Get(r, "Dr/Cr"),
        OrElse(Get(r, "Type"), "")))))

RowDate(r, now) ==
    OrElse(Get(r, "Date"),
    OrElse(Get(r, "DATE"),
    OrElse(Get(r, "Transaction Date"),
    OrElse(Get(r, "Value Date"), now))))

RowType(r, amount) ==
    IF \/ Includes(RowTypeField(r), "credit")
       \/ Includes(RowTypeField(r), "cr")
       \/ IsNegative(amount)
    THEN "CREDIT" ELSE "DEBIT"

\* mapRowToTransaction storing the signed amount (Math.abs left out)
mapRowToTransaction_Signed(r, now) ==
    LET amount == ToNumber(CleanAmount(RowAmountStr(r))) IN
    IF IsFalsyNumber(amount) THEN Null
    ELSE [date        |-> RowDate(r, now),
          description |-> RowDescription(r),
          amount      |-> amount,
          type        |-> RowType(r, amount),
          category    |-> "OTHER",
          raw         |-> r]

\* mapRowToTransaction rejecting every amount that is not positive
mapRowToTransaction_RejectsNegative(r, now) ==
    LET amount == ToNumber(CleanAmount(RowAmountStr(r))) IN
    IF IsFalsyNumber(amount) \/ IsNegative(amount) THEN Null
    ELSE [date        |-> RowDate(r, now),
          description |-> RowDescription(r),
          amount      |-> Abs(amount),
          type        |-> RowType(r, amount),
          category    |-> "OTHER",
          raw         |-> r]

\* mapRowToTransaction rejecting a row without a date on the first day of a month
mapRowToTransaction_ClockDecides(r, now) ==
    LET amount == ToNumber(CleanAmount(RowAmountStr(r))) IN
    IF IsFalsyNumber(amount) \/ (RowDate(r, "") = "" /\ EndsWith(now, "-01")) THEN Null
    ELSE [date        |-> RowDate(r, now),
          description |-> RowDescription(r),
          amount      |-> Abs(amount),
          type        |-> RowType(r, amount),
          category    |-> "OTHER",
          raw         |-> r]

mapRowToTransaction(r, now) ==
    LET amount == ToNumber(CleanAmount(RowAmountStr(r))) IN
    IF IsFalsyNumber(amount) THEN Null
    ELSE [date        |-> RowDate(r, now),
          description |-> RowDescription(r),
          amount      |-> Abs(amount),
          type        |-> RowType(r, amount),
          category    |-> "OTHER",
          raw         |-> r]

(***************************************************************************)
(* Splitting.                                                              *)
(***************************************************************************)
RECURSIVE Split(_, _)
\* s.split(c) for a one-character separator c
Split(s, c) ==
    IF ~Includes(s, c) THEN <<s>>
    ELSE LET i == CHOOSE i \in 1..Len(s) :
                      Char(s, i) = c /\ \A j \in 1..(i - 1) : Char(s, j) # c
         IN  <<SubSeq(s, 1, i - 1)>> \o Split(SubSeq(s, i + 1, Len(s)), c)

\* s.split(/\r?\n/)
SplitLines(s) ==
    LET p == Split(s, "\n") IN
    [i \in 1..Len(p) |->
        IF i < Len(p) /\ EndsWith(p[i], "\r")
        THEN SubSeq(p[i], 1, Len(p[i]) - 1) ELSE p[i]]

RECURSIVE SplitSpaces(_)
\* s.split(/\s+/)
SplitSpaces(s) ==
    IF \A i \in 1..Len(s) : ~IsSpace(Char(s, i)) THEN <<s>>
    ELSE LET i == CHOOSE i \in 1..Len(s) :
                      IsSpace(Char(s, i)) /\ \A j \in 1..(i - 1) : ~IsSpace(Char(s, j))
         IN  <<SubSeq(s, 1, i - 1)>> \o SplitSpaces(TrimStart(SubSeq(s, i, Len(s))))

\* text.split(/\r?\n/).map((l) => l.trim()).filter(Boolean)
NonBlankLines(text) ==
    LET p == SplitLines(text)
        t == [i \in 1..Len(p) |-> Trim(p[i])]
    IN  SelectSeq(t, LAMBDA l : l # "")

RECURSIVE Join(_, _)
\* parts.join(sep)
Join(parts, sep) ==
    IF Len(parts) = 0 THEN ""
    ELSE IF Len(parts) = 1 THEN parts[1]
    ELSE parts[1] \o sep \o Join(Tail(parts), sep)

(***************************************************************************)
(* parseCsv                                                                *)
(***************************************************************************)
RECURSIVE CsvRow_Untrimmed(_, _, _, _)
\* the loop without the trim of the field
CsvRow_Untrimmed(headers, cols, i, r) ==
    IF i > Len(headers) THEN r
    ELSE CsvRow_Untrimmed(headers, cols, i + 1,
                          SetProp(r, headers[i], IF i <= Len(cols) THEN cols[i] ELSE ""))

RECURSIVE CsvRow(_, _, _, _)
\* headers.forEach((h, i) => { row[h] = (cols[i] ?? "").trim(); }), from header i on
CsvRow(headers, cols, i, r) ==
    IF i > Len(headers) THEN r
    ELSE CsvRow(headers, cols, i + 1,
                SetProp(r, headers[i], Trim(IF i <= Len(cols) THEN cols[i] ELSE "")))

parseCsv(text) ==
    LET lines == NonBlankLines(text) IN
    IF Len(lines) < 2 THEN << >>
    ELSE LET h       == Split(lines[1], ",")
             headers == [i \in 1..Len(h) |-> Trim(h[i])]
         IN  [n \in 1..(Len(lines) - 1) |->
                 CsvRow(headers, Split(lines[n + 1], ","), 1, EmptyRow)]

(***************************************************************************)
(* parsePdfTextToRows                                                      *)
(***************************************************************************)
\* the header test of the loop
IsPdfHeaderLine(line) ==
    LET lower == ToLowerCase(line) IN
    \/ StartsWith(lower, "date")
    \/ StartsWith(lower, "transaction details")
    \/ Includes(lower, "cheque/reference")
    \/ (Includes(lower, "debit") /\ Includes(lower, "credit") /\ Includes(lower, "balance"))

AllDigits(s) == \A i \in 1..Len(s) : IsDigit(Char(s, i))

\* /^\d{2}\s\w{3},\s\d{4}$/ on parts.slice(0, 3).join(" "): the parts hold no
\* white space, so the two \s are the two joining spaces
IsDateCandidate(parts) ==
    /\ Len(parts[1]) = 2 /\ AllDigits(parts[1])
    /\ Len(parts[2]) = 4 /\ Char(parts[2], 4) = ","
    /\ \A i \in 1..3 : IsWordChar(Char(parts[2], i))
    /\ Len(parts[3]) = 4 /\ AllDigits(parts[3])

\* /[0-9]/.test(token)
HasDigit(token) == \E i \in 1..Len(token) : IsDigit(Char(token, i))

\* the indices pushed to numericIdx (0-based, as in the code)
NumericIdx(parts) ==
    LET hits == {i \in 1..Len(parts) : HasDigit(parts[i])} IN
    [n \in 1..Cardinality(hits) |->
        (CHOOSE i \in hits : Cardinality({j \in hits : j < i}) = n - 1) - 1]

\* parts.slice(from, to), 0-based and end-exclusive
Slice(parts, from, to) == SubSeq(parts, from + 1, to)

\* the loop body taking the last digit token as the amount
PdfLineRows_AmountLast(line) ==
    LET parts == SplitSpaces(line) IN
    IF IsPdfHeaderLine(line) \/ Len(parts) < 5 THEN << >>
    ELSE IF ~IsDateCandidate(parts) \/ Len(NumericIdx(parts)) < 2 THEN << >>
    ELSE LET numericIdx == NumericIdx(parts)
             amountIdx  == numericIdx[Len(numericIdx)]
             balanceIdx == numericIdx[Len(numericIdx) - 1]
         IN  << SetProp(SetProp(SetProp(SetProp(SetProp(EmptyRow,
                   "Date", Join(Slice(parts, 0, 3), " ")),
                   "Description", OrElse(Join(Slice(parts, 3, amountIdx), " "),
                                         "UNKNOWN TRANSACTION")),
                   "Amount", parts[amountIdx + 1]),
                   "Balance", parts[balanceIdx + 1]),
                   "Credit/Debit",
                   IF ~Includes(parts[amountIdx + 1], "-") THEN "Credit" ELSE "Debit") >>

\* the loop body without the `parts.length < 5` test
PdfLineRows_AnyLength(line) ==
    LET parts == SplitSpaces(line) IN
    IF IsPdfHeaderLine(line) \/ Len(parts) < 3 THEN << >>
    ELSE IF ~IsDateCandidate(parts) \/ Len(NumericIdx(parts)) < 2 THEN << >>
    ELSE LET numericIdx == NumericIdx(parts)
             balanceIdx == numericIdx[Len(numericIdx)]
             amountIdx  == numericIdx[Len(numericIdx) - 1]
         IN  << SetProp(SetProp(SetProp(SetProp(SetProp(EmptyRow,
                   "Date", Join(Slice(parts, 0, 3), " ")),
                   "Description", OrElse(Join(Slice(parts, 3, amountIdx), " "),
                                         "UNKNOWN TRANSACTION")),
                   "Amount", parts[amountIdx + 1]),
                   "Balance", parts[balanceIdx + 1]),
                   "Credit/Debit",
                   IF ~Includes(parts[amountIdx + 1], "-") THEN "Credit" ELSE "Debit") >>

\* one pass of the loop body: the rows pushed for this line (none or one)
PdfLineRows(line) ==
    LET parts == SplitSpaces(line) IN
    IF IsPdfHeaderLine(line) THEN << >>
    ELSE IF Len(parts) < 5 THEN << >>
    ELSE IF ~IsDateCandidate(parts) THEN << >>
    ELSE LET numericIdx == NumericIdx(parts) IN
         IF Len(numericIdx) < 2 THEN << >>
         ELSE LET balanceIdx   == numericIdx[Len(numericIdx)]
                  amountIdx    == numericIdx[Len(numericIdx) - 1]
                  date         == Join(Slice(parts, 0, 3), " ")
                  description  == OrElse(Join(Slice(parts, 3, amountIdx), " "),
                                         "UNKNOWN TRANSACTION")
                  amountToken  == parts[amountIdx + 1]
                  balanceToken == parts[balanceIdx + 1]
                  type         == IF ~Includes(amountToken, "-") THEN "CREDIT" ELSE "DEBIT"
              IN  << SetProp(SetProp(SetProp(SetProp(SetProp(EmptyRow,
                        "Date", date),
                        "Description", description),
                        "Amount", amountToken),
                        "Balance", balanceToken),
                        "Credit/Debit", IF type = "CREDIT" THEN "Credit" ELSE "Debit") >>

RECURSIVE PdfRowsFrom(_, _)
PdfRowsFrom(lines, i) ==
    IF i > Len(lines) THEN << >>
    ELSE PdfLineRows(lines[i]) \o PdfRowsFrom(lines, i + 1)

parsePdfTextToRows(text) == PdfRowsFrom(NonBlankLines(text), 1)

(***************************************************************************)
(* computeSummary                                                          *)
(***************************************************************************)
\* the object literal byCategory starts as
InitialByCategory ==
    [c \in {"INCOME", "RENT", "GROCERIES", "FOOD_DELIVERY", "SHOPPING", "TRANSPORT",
            "UTILITIES", "SUBSCRIPTION", "BANK_FEES", "TRANSFER", "OTHER"} |-> Zero]

\* the loop body with the category bucket updated for debits only
SummaryStep_DebitBucketsOnly(acc, t) ==
    [totalIncome   |-> IF t.type = "CREDIT" THEN Add(acc.totalIncome, t.amount)
                       ELSE acc.totalIncome,
     totalSpending |-> IF t.type = "CREDIT" THEN acc.totalSpending
                       ELSE Add(acc.totalSpending, t.amount),
     byCategory    |-> IF t.type = "CREDIT" THEN acc.byCategory
                       ELSE [acc.byCategory EXCEPT
                               ![t.category] = Add(acc.byCategory[t.category], t.amount)]]

\* the loop body with the two totals exchanged
SummaryStep_TotalsSwapped(acc, t) ==
    [totalIncome   |-> IF t.type = "CREDIT" THEN acc.totalIncome
                       ELSE Add(acc.totalIncome, t.amount),
     totalSpending |-> IF t.type = "CREDIT" THEN Add(acc.totalSpending, t.amount)
                       ELSE acc.totalSpending,
     byCategory    |-> [acc.byCategory EXCEPT
                           ![t.category] = Add(acc.byCategory[t.category], t.amount)]]

\* one iteration of the loop over transactions
SummaryStep(acc, t) ==
    [totalIncome   |-> IF t.type = "CREDIT" THEN Add(acc.totalIncome, t.amount)
                       ELSE acc.totalIncome,
     totalSpending |-> IF t.type = "CREDIT" THEN acc.totalSpending
                       ELSE Add(acc.totalSpending, t.amount),
     byCategory    |-> [acc.byCategory EXCEPT
                           ![t.category] = Add(acc.byCategory[t.category], t.amount)]]

RECURSIVE SummaryLoop(_, _)
\* the accumulators after the first n transactions
SummaryLoop(transactions, n) ==
    IF n = 0
    THEN [totalIncome |-> Zero, totalSpending |-> Zero, byCategory |-> InitialByCategory]
    ELSE SummaryStep(SummaryLoop(transactions, n - 1), transactions[n])

\* leaks with subscriptions read from the SHOPPING bucket
Leaks_WrongBucket(byCategory) ==
    [bankFees      |-> byCategory["BANK_FEES"],
     subscriptions |-> byCategory["SHOPPING"],
     foodDelivery  |-> byCategory["FOOD_DELIVERY"]]

Leaks(byCategory) ==
    [bankFees      |-> byCategory["BANK_FEES"],
     subscriptions |-> byCategory["SUBSCRIPTION"],
     foodDelivery  |-> byCategory["FOOD_DELIVERY"]]

computeSummary(transactions) ==
    LET acc == SummaryLoop(transactions, Len(transactions)) IN
    [totalIncome   |-> acc.totalIncome,
     totalSpending |-> acc.totalSpending,
     net           |-> Sub(acc.totalIncome, acc.totalSpending),
     byCategory    |-> acc.byCategory,
     leaks         |-> Leaks(acc.byCategory)]

(***************************************************************************)
(* POST of the analysis route.  A request is what the handler reads:       *)
(* whether req.formData() throws, whether the form has a file, the file's  *)
(* name and type, and its text (for a PDF: whether pdf-parse throws, and   *)
(* the text it extracts).                                                  *)
(***************************************************************************)
ErrNoFile == "No file uploaded"
ErrPdf == "Could not read text from this PDF."
ErrNoRows == "Could not detect any transactions in this file."
ErrFailed == "Failed to analyze file."

\* an error response that also carries an (empty) summary
ErrorResponse_WithSummary(status, message) ==
    [status |-> status,
     body   |-> [error |-> message,
                 summary |-> [totalIncome |-> Zero, totalSpending |-> Zero, net |-> Zero]]]

ErrorResponse(status, message) == [status |-> status, body |-> [error |-> message]]

IsPdfUpload(req) ==
    \/ EndsWith(ToLowerCase(req.fileName), ".pdf")
    \/ ToLowerCase(req.fileType) = "application/pdf"

\* the local `rows` after the PDF/CSV branch
ExtractRows(req) ==
    IF IsPdfUpload(req) THEN parsePdfTextToRows(req.text) ELSE parseCsv(req.text)

RECURSIVE MapRows_Reversed(_, _, _)
\* the kept transactions collected last row first
MapRows_Reversed(rs, now, i) ==
    IF i > Len(rs) THEN << >>
    ELSE LET t == mapRowToTransaction(rs[i], now) IN
         MapRows_Reversed(rs, now, i + 1) \o (IF IsNull(t) THEN << >> ELSE <<t>>)

RECURSIVE MapRows(_, _, _)
\* rows.map(mapRowToTransaction).filter((t) => !!t), from row i on
MapRows(rs, now, i) ==
    IF i > Len(rs) THEN << >>
    ELSE LET t == mapRowToTransaction(rs[i], now) IN
         (IF IsNull(t) THEN << >> ELSE <<t>>) \o MapRows(rs, now, i + 1)

\* rows.map(mapRowToTransaction).filter(...).map(categorizeTransaction)
Transactions(rs, now) ==
    LET kept == MapRows(rs, now, 1) IN
    [i \in 1..Len(kept) |-> categorizeTransaction(kept[i])]

\* POST without the `if (!rows.length)` test
POST_NoRowsTest(req, now) ==
    IF req.formDataThrows THEN ErrorResponse(500, ErrFailed)
    ELSE IF ~req.hasFile THEN ErrorResponse(400, ErrNoFile)
    ELSE IF IsPdfUpload(req) /\ req.pdfParseThrows THEN ErrorResponse(400, ErrPdf)
    ELSE LET transactions == Transactions(ExtractRows(req), now) IN
         [status |-> 200,
          body   |-> [transactions |-> transactions,
                      summary      |-> computeSummary(transactions)]]

POST(req, now) ==
    IF req.formDataThrows THEN ErrorResponse(500, ErrFailed)
    ELSE IF ~req.hasFile THEN ErrorResponse(400, ErrNoFile)
    ELSE IF IsPdfUpload(req) /\ req.pdfParseThrows THEN ErrorResponse(400, ErrPdf)
    ELSE LET extracted == ExtractRows(req) IN
         IF Len(extracted) = 0 THEN ErrorResponse(400, ErrNoRows)
         ELSE LET transactions == Transactions(extracted, now) IN
              [status |-> 200,
               body   |-> [transactions |-> transactions,
                           summary      |-> computeSummary(transactions)]]

\* `rows` when the handler returns: still [] on the paths that return before
\* or inside the branch that assigns it
PostRows(req) ==
    IF req.formDataThrows \/ ~req.hasFile \/ (IsPdfUpload(req) /\ req.pdfParseThrows)
    THEN << >>
    ELSE ExtractRows(req)

(***************************************************************************)
(* app/api/analyze/route.ts after the analysis moved to the backend        *)
(***************************************************************************)
ErrDisabled ==
    "This endpoint is disabled. The frontend now talks directly to the MoneyLeaks backend API."

\* a relocated route that still analyses the uploads it can read
RelocatedPOST_ServesUploads(req) ==
    IF ~req.formDataThrows /\ req.hasFile /\ ~req.pdfParseThrows
    THEN POST(req, "2025-11-03")
    ELSE ErrorResponse(410, ErrDisabled)

\* POST(): the handler declares no parameter, the request it is called
\* with is not looked at
RelocatedPOST(req) == [status |-> 410, body |-> [error |-> ErrDisabled]]

(***************************************************************************)
(* The analysis backend the page calls (`${baseUrl}/analyze`).  Its source *)
(* (moneyleaks-backend/main.py) is not among the source files: what the    *)
(* page and the declared types show is that each transaction may carry a   *)
(* `merchant` and that the summary carries `topMerchants` and `monthly`.   *)
(* The three are modelled from sections 4.4 and 4.5 of the specification.  *)
(***************************************************************************)
TopN == 10

HasMerchant(t) == "merchant" \in DOMAIN t

\* the tokens that are not pure reference numbers
DropAllDigits(tokens) == SelectSeq(tokens, LAMBDA token : ~AllDigits(token))

\* the normalizer naming the first slash field (the rail prefix)
NormalizeCounterparty_FirstField(description) ==
    Trim(Split(description, "/")[1])

\* the counterparty name of a narration, "" when none can be told
NameOf(fields, description) ==
    IF Len(fields) >= 4 /\ Trim(fields[2]) # ""
    THEN Trim(fields[2])
    ELSE Join(DropAllDigits(SplitSpaces(Trim(description))), " ")

NormalizeCounterparty(description) == NameOf(Split(description, "/"), description)

\* naming that leaves every transaction without a merchant
WithMerchant_Never(t) == t

\* the transaction with its optional merchant
Named(t, name) ==
    IF name = "" THEN t
    ELSE [k \in DOMAIN t \cup {"merchant"} |-> IF k = "merchant" THEN name ELSE t[k]]

WithMerchant(t) == Named(t, NormalizeCounterparty(t.description))

Less(a, b) == IsNegative(Sub(a, b))

\* a transaction that counts towards its merchant's spending
IsMerchantSpend(t) == t.type = "DEBIT" /\ t.category # "TRANSFER" /\ HasMerchant(t)

RECURSIVE MerchantTotals(_, _)
\* {merchant, amount} per merchant, in first-seen order
MerchantTotals(ts, acc) ==
    IF Len(ts) = 0 THEN acc
    ELSE LET t == ts[1]
             rest == SubSeq(ts, 2, Len(ts))
         IN  IF ~IsMerchantSpend(t) THEN MerchantTotals(rest, acc)
             ELSE IF \E i \in 1..Len(acc) : acc[i].merchant = t.merchant
             THEN MerchantTotals(rest,
                    [i \in 1..Len(acc) |->
                        IF acc[i].merchant = t.merchant
                        THEN [acc[i] EXCEPT !.amount = Add(@, t.amount)]
                        ELSE acc[i]])
             ELSE MerchantTotals(rest,
                    Append(acc, [merchant |-> t.merchant, amount |-> t.amount]))

\* e placed after every entry that is not smaller (keeps first-seen order on ties)
InsertDescending(sorted, e) ==
    LET before == {i \in 1..Len(sorted) : ~Less(sorted[i].amount, e.amount)}
        k == IF before = {} THEN 0 ELSE CHOOSE i \in before : \A j \in before : j <= i
    IN  SubSeq(sorted, 1, k) \o <<e>> \o SubSeq(sorted, k + 1, Len(sorted))

RECURSIVE SortDescending(_, _)
SortDescending(entries, sorted) ==
    IF Len(entries) = 0 THEN sorted
    ELSE SortDescending(SubSeq(entries, 2, Len(entries)),
                        InsertDescending(sorted, entries[1]))

\* the ranking without the sort: first-seen order
TopMerchants_FirstSeen(transactions) ==
    LET totals == MerchantTotals(transactions, << >>) IN
    SubSeq(totals, 1, IF Len(totals) < TopN THEN Len(totals) ELSE TopN)

TopMerchants(transactions) ==
    LET ranked == SortDescending(MerchantTotals(transactions, << >>), << >>) IN
    SubSeq(ranked, 1, IF Len(ranked) < TopN THEN Len(ranked) ELSE TopN)

MonthAbbreviations ==
    <<"jan", "feb", "mar", "apr", "may", "jun", "jul", "aug", "sep", "oct", "nov", "dec">>

Pad2(n) == IF n < 10 THEN "0" \o Char(Digits, n + 1)
           ELSE Char(Digits, (n \div 10) + 1) \o Char(Digits, (n % 10) + 1)

IsYear(s) == Len(s) = 4 /\ AllDigits(s)
IsDayOrMonth(s) == Len(s) \in {1, 2} /\ AllDigits(s)

\* the "YYYY-MM" key of a year string and a month number, "" for no such month
KeyOf(year, month) ==
    IF month \in 1..12 THEN year \o "-" \o Pad2(month) ELSE ""

\* `DD Mon, YYYY`
MonthKeyOfNamed(date) ==
    LET parts == SplitSpaces(Trim(date)) IN
    IF /\ Len(parts) = 3
       /\ IsDayOrMonth(parts[1])
       /\ Len(parts[2]) = 4 /\ Char(parts[2], 4) = ","
       /\ IsYear(parts[3])
    THEN LET abbr == ToLowerCase(SubSeq(parts[2], 1, 3))
             hits == {m \in 1..12 : MonthAbbreviations[m] = abbr}
         IN  IF hits = {} THEN "" ELSE KeyOf(parts[3], CHOOSE m \in hits : TRUE)
    ELSE ""

\* `DD-MM-YYYY`, `DD/MM/YYYY` and the ISO `YYYY-MM-DD` of the default date
MonthKeyOfNumeric(date, sep) ==
    LET parts == Split(Trim(date), sep) IN
    IF Len(parts) # 3 THEN ""
    ELSE IF IsDayOrMonth(parts[1]) /\ IsDayOrMonth(parts[2]) /\ IsYear(parts[3])
    THEN KeyOf(parts[3], DigitsValue(parts[2]))
    ELSE IF sep = "-" /\ IsYear(parts[1]) /\ IsDayOrMonth(parts[2]) /\ IsDayOrMonth(parts[3])
    THEN KeyOf(parts[1], DigitsValue(parts[2]))
    ELSE ""

\* the month key reading `DD-MM-YYYY` as month first
MonthKey_MonthFirst(date) ==
    LET parts == Split(Trim(date), "-") IN
    IF Len(parts) = 3 /\ IsDayOrMonth(parts[1]) /\ IsYear(parts[3])
    THEN KeyOf(parts[3], DigitsValue(parts[1]))
    ELSE OrElse(MonthKeyOfNamed(date),
         OrElse(MonthKeyOfNumeric(date, "-"), MonthKeyOfNumeric(date, "/")))

\* the calendar month of a raw date string, "" when it cannot be resolved
MonthKey(date) ==
    OrElse(MonthKeyOfNamed(date),
    OrElse(MonthKeyOfNumeric(date, "-"), MonthKeyOfNumeric(date, "/")))

\* the month's entry with the transaction added to its income or its spending
MonthEntry(acc, key, t) ==
    LET entry == IF key \in DOMAIN acc THEN acc[key]
                 ELSE [income |-> Zero, spending |-> Zero]
    IN  IF t.type = "CREDIT"
        THEN [entry EXCEPT !.income = Add(@, t.amount)]
        ELSE [entry EXCEPT !.spending = Add(@, t.amount)]

MonthlyStep(acc, key, t) ==
    IF key = "" THEN acc
    ELSE [k \in DOMAIN acc \cup {key} |-> IF k = key THEN MonthEntry(acc, key, t) ELSE acc[k]]

RECURSIVE Monthly(_)
\* "YYYY-MM" -> {income, spending}; transactions of no resolvable month are left out
Monthly(transactions) ==
    IF Len(transactions) = 0 THEN << >>
    ELSE MonthlyStep(Monthly(SubSeq(transactions, 1, Len(transactions) - 1)),
                     MonthKey(transactions[Len(transactions)].date),
                     transactions[Len(transactions)])

\* the summary of the analysis backend: the totals of computeSummary with the
\* ranking and the monthly trend
Extended(base, transactions) ==
    [totalIncome   |-> base.totalIncome,
     totalSpending |-> base.totalSpending,
     net           |-> base.net,
     byCategory    |-> base.byCategory,
     leaks         |-> base.leaks,
     topMerchants  |-> TopMerchants(transactions),
     monthly       |-> Monthly(transactions)]

Summary(transactions) == Extended(computeSummary(transactions), transactions)

\* the backend's answer to an upload: the transactions named, the summary extended
AnalyzeBody(named) == [transactions |-> named, summary |-> Summary(named)]

AnalyzeAnswer200(transactions) ==
    [status |-> 200,
     body   |-> AnalyzeBody([i \in 1..Len(transactions) |-> WithMerchant(transactions[i])])]

AnalyzeOf(answer) ==
    IF answer.status # 200 THEN answer ELSE AnalyzeAnswer200(answer.body.transactions)

analyze(req, now) == AnalyzeOf(POST(req, now))

(***************************************************************************)
(* app/page.tsx: what the page derives from the summary it holds.          *)
(***************************************************************************)
\* the characters of the month keys, in code-unit order
KeyChars == "-0123456789"

CodeOf(c) == CHOOSE i \in 1..Len(KeyChars) : Char(KeyChars, i) = c

RECURSIVE StringLess(_, _)
\* a < b on strings
StringLess(a, b) ==
    IF b = "" THEN FALSE
    ELSE IF a = "" THEN TRUE
    ELSE IF Char(a, 1) = Char(b, 1)
         THEN StringLess(SubSeq(a, 2, Len(a)), SubSeq(b, 2, Len(b)))
         ELSE CodeOf(Char(a, 1)) < CodeOf(Char(b, 1))

\* the useMemo named topMerchants
HomePage_topMerchants(s) ==
    IF IsNull(s) \/ "topMerchants" \notin DOMAIN s THEN << >> ELSE s.topMerchants

monthNames ==
    <<"Jan", "Feb", "Mar", "Apr", "May", "Jun", "Jul", "Aug", "Sep", "Oct", "Nov", "Dec">>

\* one element of sorted.map(...)
TrendEntry(key, value) ==
    LET parts    == Split(key, "-")
        year     == parts[1]
        monthNum == IF Len(parts) >= 2 THEN ToNumber(parts[2]) ELSE NaN
        inRange  == ~monthNum.nan /\ monthNum.e = 0 /\ monthNum.m - 1 >= 0
                    /\ monthNum.m - 1 < 12
    IN  [key      |-> key,
         label    |-> IF inRange THEN monthNames[monthNum.m] \o " " \o year ELSE key,
         income   |-> value.income,
         spending |-> value.spending]

\* the useMemo named trendData: the months in ascending key order
trendData(s) ==
    IF IsNull(s) \/ "monthly" \notin DOMAIN s THEN << >>
    ELSE LET keys == DOMAIN s.monthly
             At(n) == CHOOSE k \in keys :
                         Cardinality({j \in keys : StringLess(j, k)}) = n - 1
         IN  [n \in 1..Cardinality(keys) |-> TrendEntry(At(n), s.monthly[At(n)])]

(***************************************************************************)
(* app/page.tsx: HomePage.  `page` holds the useState cells; a cell of type *)
(* `string | null` is None or Some(s), a cell holding an object is Null or  *)
(* the object.  A fetch in flight remembers what it was sent with; its      *)
(* answer is the outcome of `await fetch` and `await res.json()`: either a  *)
(* throw (with the thrown message) or a status and a parsed body.           *)
(***************************************************************************)
None == << >>
Some(s) == <<s>>

\* a || b on strings
Or(a, b) == IF a = "" THEN b ELSE a

\* data.k for a parsed body: "" stands for an absent (undefined) property
Field(body, k) == IF k \in DOMAIN body THEN body[k] ELSE ""

Thrown(message) == [throws |-> TRUE, message |-> message]
Answered(status, body) == [throws |-> FALSE, status |-> status, body |-> body]

\* res.ok
IsOk(answer) == answer.status >= 200 /\ answer.status <= 299

InitialPage ==
    [file             |-> Null,
     loading          |-> FALSE,
     summary          |-> Null,
     transactions     |-> << >>,
     error            |-> None,
     selectedCategory |-> "ALL",
     selectedMerchant |-> None,
     aiAdvice         |-> None,
     aiLoading        |-> FALSE,
     aiError          |-> None]

handleFileChange(p, f) ==
    [p EXCEPT !.file = f, !.summary = Null, !.transactions = << >>, !.error = None,
              !.selectedMerchant = None, !.aiAdvice = None, !.aiError = None]

\* handleAnalyze up to the await of fetch
AnalyzeStarted(p) ==
    IF IsNull(p.file)
    THEN [p EXCEPT !.error = Some("Please choose a CSV or PDF file first.")]
    ELSE [p EXCEPT !.loading = TRUE, !.error = None, !.aiAdvice = None, !.aiError = None]

\* the message of the error handleAnalyze catches, "" when nothing is thrown
AnalyzeFailure(answer) ==
    IF answer.throws THEN Or(answer.message, "Something went wrong.")
    ELSE IF ~IsOk(answer) \/ Field(answer.body, "error") # ""
                          \/ Field(answer.body, "detail") # ""
    THEN Or(Or(Field(answer.body, "error"), Field(answer.body, "detail")),
            "Failed to analyze file.")
    ELSE ""

\* handleAnalyze from the answer on: try, catch and finally
AnalyzeSettled(p, answer) ==
    IF AnalyzeFailure(answer) # ""
    THEN [p EXCEPT !.error = Some(AnalyzeFailure(answer)), !.loading = FALSE]
    ELSE [p EXCEPT !.summary = answer.body.summary,
                   !.transactions = answer.body.transactions,
                   !.selectedMerchant = None,
                   !.loading = FALSE]

\* handleGetAdvice up to the await of fetch
AdviceStarted(p) ==
    IF IsNull(p.summary) THEN p
    ELSE [p EXCEPT !.aiLoading = TRUE, !.aiError = None]

\* the message of the error handleGetAdvice catches, "" when nothing is thrown
AdviceFailure(answer) ==
    IF answer.throws
    THEN Or(answer.message, "Something went wrong while getting advice.")
    ELSE IF ~IsOk(answer) \/ Field(answer.body, "detail") # ""
                          \/ Field(answer.body, "error") # ""
    THEN Or(Or(Field(answer.body, "detail"), Field(answer.body, "error")),
            "Failed to get advice")
    ELSE ""

\* a catch block that also drops the analysis shown
AdviceSettled_DropsAnalysis(p, answer) ==
    IF AdviceFailure(answer) # ""
    THEN [p EXCEPT !.aiError = Some(AdviceFailure(answer)), !.aiLoading = FALSE,
                   !.summary = Null, !.transactions = << >>]
    ELSE [p EXCEPT !.aiAdvice = Some(Or(Field(answer.body, "advice"), "No advice generated.")),
                   !.aiLoading = FALSE]

\* handleGetAdvice from the answer on: try, catch and finally
AdviceSettled(p, answer) ==
    IF AdviceFailure(answer) # ""
    THEN [p EXCEPT !.aiError = Some(AdviceFailure(answer)), !.aiLoading = FALSE]
    ELSE [p EXCEPT !.aiAdvice = Some(Or(Field(answer.body, "advice"), "No advice generated.")),
                   !.aiLoading = FALSE]

\* the row click of the merchant table
ToggleMerchant(p, m) ==
    [p EXCEPT !.selectedMerchant = IF p.selectedMerchant = Some(m) THEN None ELSE Some(m)]

\* `summary && (...)`: the analysis is on screen
ShowsAnalysis(p) == ~IsNull(p.summary)

(***************************************************************************)
(* Bounds and the inputs drawn within them.                                *)
(***************************************************************************)
MaxLines == 2   \* data lines of an uploaded statement
MaxTxs == 2     \* transactions handed to computeSummary

SeqsUpTo(S, n) == UNION {[1..k -> S] : k \in 0..n}

CsvHeaders ==
    {"Date,Description,Amount,Type",
     "Txn,Narration, Withdrawal Amt. ,Deposit Amt.",
     "Posted,Details,Value"}

CsvLines ==
    {"01-10-2025,SWIGGY ORDER,450,Debit",
     "02-10-2025,SALARY NETFLIX,50000,Credit",
     "03-10-2025,ATM WDL,0,Debit",
     "04-10-2025,AMAZON PRIME,-199.00,Debit",
     "05-11-2025,Uber trip,1-2,Dr",
     "06-11-2025,Late fee, Rs 1250.5 ,CR\r",
     "07-11-2025,UPI/DEVRAJ VERMA/29xxxx/Sent using Paytm",
     "08-10-2025,Zomato Eats,135.25,Debit",
     "   "}

PdfLines ==
    {"01 Oct, 2025 UPI/DEVRAJ VERMA/29xxxx/Sent using Paytm UPI-527431570952 -135.00 20,127.38",
     "01 Oct, 2025 OPENING BALANCE +20,262.38 20,262.38",
     "DATE TRANSACTION DETAILS CHEQUE/REFERENCE# DEBIT CREDIT BALANCE",
     "Statement generated for account 1234",
     "02 Nov, 2025  NETFLIX.COM -649.00 19,478.38",
     "03 Nov, 2025 ATM -0.00 19,478.38",
     "04 Nov, 2025 SWIGGY 19,000.00"}

TextsOf(headers, lines) ==
    {Join(<<h>> \o ls, "\n") : h \in headers, ls \in SeqsUpTo(lines, MaxLines)}

CsvTexts == {""} \cup TextsOf(CsvHeaders, CsvLines)
PdfTexts == {Join(ls, "\n") : ls \in SeqsUpTo(PdfLines, MaxLines)}

Upload(name, type, text) ==
    [formDataThrows |-> FALSE, hasFile |-> TRUE, fileName |-> name, fileType |-> type,
     text |-> text, pdfParseThrows |-> FALSE]

Requests ==
    {Upload("statement.csv", "text/csv", t) : t \in CsvTexts}
    \cup {Upload("Statement.PDF", "", t) : t \in PdfTexts}
    \cup {[Upload("statement", "application/pdf", "") EXCEPT !.pdfParseThrows = TRUE],
          [Upload("", "", "") EXCEPT !.hasFile = FALSE],
          [Upload("", "", "") EXCEPT !.formDataThrows = TRUE]}

Dates == {"2025-11-03", "2025-12-01"}

\* transactions of any type, prior category and description
CatDescriptions ==
    {"SWIGGY ORDER", "Netflix renewal", "UBER EATS", "AMAZON PRIME",
     "House Rent transfer", "Current account interest", "DMART grocery",
     "Airtel postpaid", "Late fee charge", "NEFT to account",
     "UPI/DEVRAJ VERMA/29xxxx/Sent using Paytm", "SALARY", "ATM WDL",
     "Metro bus pass", "Flipkart cab", "Jio fine", "", "Zomato subscription"}

CatInputs ==
    {[date |-> "01-10-2025", description |-> d, amount |-> Dec(450, 0), type |-> ty,
      category |-> c, raw |-> EmptyRow] :
        d \in CatDescriptions, ty \in TransactionType, c \in Category}

\* transactions of any type, category and amount
SumAmounts == {Dec(450, 0), Dec(13525, 2)}

SumInputs ==
    SeqsUpTo({[date |-> "01-10-2025", description |-> "x", amount |-> a, type |-> ty,
               category |-> c, raw |-> EmptyRow] :
                 a \in SumAmounts, ty \in TransactionType, c \in Category}, MaxTxs)

\* rows with a type column (or none) and an amount of either sign
MapAmounts == {"450", "-135.00", "0", "", "+20,262.38", "1-2", "-0.0", ".5", "5.", "-"}
MapTypeKeys == {"Credit/Debit", "Cr/Dr", "Dr/Cr", "Type", "Kind"}
MapTypeValues == {"Credit", "Debit", "CR", "Dr", "", "DEBIT"}

MapInputs ==
    {SetProp(SetProp(SetProp(SetProp(EmptyRow,
        "Date", "01-10-2025"), "Description", "SWIGGY ORDER"), "Amount", a), k, v) :
        a \in MapAmounts, k \in MapTypeKeys, v \in MapTypeValues}

\* named transactions: ten merchants with spending (the smallest first), then
\* transactions of a new, a listed or no merchant, of any type
AggTx(date, name, amount, type, category) ==
    LET t == [date |-> date, description |-> name, amount |-> amount, type |-> type,
              category |-> category, raw |-> EmptyRow]
    IN  IF name = "" THEN t
        ELSE [k \in DOMAIN t \cup {"merchant"} |-> IF k = "merchant" THEN name ELSE t[k]]

BaseMerchants ==
    <<"SWIGGY", "ZOMATO", "AMAZON", "FLIPKART", "UBER", "OLA", "NETFLIX", "DMART",
      "AIRTEL", "IRCTC">>

BaseTxs ==
    [i \in 1..Len(BaseMerchants) |->
        AggTx("01-10-2025", BaseMerchants[i], Dec(100 * i, 0), "DEBIT", "SHOPPING")]

RankExtras ==
    {AggTx("01-10-2025", name, a, ty, c) :
        name \in {"DEVRAJ VERMA", "ZOMATO", ""}, a \in {Dec(50, 0), Dec(300, 0)},
        ty \in TransactionType, c \in {"FOOD_DELIVERY", "TRANSFER"}}

MonthDates ==
    {"01 Oct, 2025", "15-11-2025", "03/10/2025", "2025-11-03", "31 Dec, 2024", "next week"}

MonthExtras ==
    {AggTx(d, "SWIGGY", a, ty, IF ty = "CREDIT" THEN "INCOME" ELSE "FOOD_DELIVERY") :
        d \in MonthDates, a \in SumAmounts, ty \in TransactionType}

AggInputs ==
    {seed \o extra : seed \in {<< >>, BaseTxs}, extra \in SeqsUpTo(RankExtras, MaxTxs)}
    \cup SeqsUpTo(MonthExtras, MaxTxs)

\* the uploads handled twice
MaxTwinLines == 1

TwinRequests ==
    {Upload("statement.csv", "text/csv", t) :
        t \in {""} \cup {Join(<<h>> \o ls, "\n") :
                            h \in CsvHeaders, ls \in SeqsUpTo(CsvLines, MaxTwinLines)}}
    \cup {Upload("Statement.PDF", "", Join(ls, "\n")) : ls \in SeqsUpTo(PdfLines, MaxTwinLines)}
    \cup {[Upload("statement", "application/pdf", "") EXCEPT !.pdfParseThrows = TRUE],
          [Upload("", "", "") EXCEPT !.hasFile = FALSE],
          [Upload("", "", "") EXCEPT !.formDataThrows = TRUE]}

\* the files a visitor picks and the answers the two endpoints give
PageFiles ==
    {Upload("october.csv", "text/csv",
            "Date,Description,Amount,Type\n01-10-2025,SWIGGY ORDER,450,Debit"),
     Upload("november.csv", "text/csv",
            "Date,Description,Amount,Type\n02-10-2025,SALARY NETFLIX,50000,Credit"),
     Upload("empty.csv", "text/csv", "")}

AnalyzeAnswers(f) ==
    {Answered(r.status, r.body) : r \in {analyze(f, now) : now \in Dates}}
    \cup {Thrown("Failed to fetch"), Answered(422, [detail |-> "Unprocessable file"])}

AdviceAnswers ==
    {Answered(200, [advice |-> "Cook at home twice a week."]),
     Answered(200, [advice |-> ""]),
     Answered(500, [detail |-> "Model unavailable"]),
     Answered(200, [error |-> "No summary"]),
     Answered(502, << >>),
     Thrown("Failed to fetch"),
     Thrown("")}

PageCategories == {"ALL", "FOOD_DELIVERY"}

\* lines of extracted PDF text: rows, headers and noise
PdfTextLines ==
    PdfLines \cup
    {"05 Nov, 2025 -10.00 500.00",
     "05 Nov, 2025 -10.00",
     "5 Nov, 2025 RENT -10.00 500.00",
     "05 November, 2025 RENT -10.00 500.00",
     "05 Nov 2025 RENT -10.00 500.00",
     "06 Nov, 2025 Debit card credit balance refund -5.00 495.00",
     "07 Nov, 2025 RENT 2 BHK flat -12,000.00 7,478.38",
     "08 Nov, 2025 ATM WDL -500.00 6,978.38 ref",
     "09 Nov, 2025 CASH DEPOSIT BRANCH"}

PdfUploads ==
    {Upload("Statement.PDF", "", Join(ls, "\n")) : ls \in SeqsUpTo(PdfTextLines, MaxLines)}

\* header lines of delimited statements, two of them with a repeated column name
CsvFileHeaders ==
    CsvHeaders \cup {"Date,Amount,Amount", "Date,Details,,"}

CsvUploads ==
    {Upload("statement.csv", "text/csv", t) : t \in {""} \cup TextsOf(CsvFileHeaders, CsvLines)}

(***************************************************************************)
(* Specifications.                                                         *)
(***************************************************************************)
CatIdle == tx = Null /\ catResult = Null
SumIdle == txs = << >> /\ summary = Null
MapIdle == row = EmptyRow /\ mapped = Null
PostIdle == request = Null /\ today = "" /\ rows = << >> /\ response = Null
TwinIdle == twin = Null
PageIdle == page = Null /\ analyzeCall = Null /\ adviceCall = Null

catVars == <<tx, catResult>>
sumVars == <<txs, summary>>
mapVars == <<row, mapped>>
postVars == <<request, today, rows, response>>
twinVars == <<twin>>
pageVars == <<page, analyzeCall, adviceCall>>

\* the analysis route serving one request
Init == pc = "init" /\ CatIdle /\ SumIdle /\ MapIdle /\ PostIdle /\ TwinIdle /\ PageIdle

Post ==
    /\ pc = "init"
    /\ \E req \in Requests, now \in Dates :
          /\ request' = req
          /\ today' = now
          /\ rows' = PostRows(req)
          /\ response' = POST(req, now)
    /\ pc' = "done"
    /\ UNCHANGED <<catVars, sumVars, mapVars, twinVars, pageVars>>

Next == Post

Spec == Init /\ [][Next]_vars

\* categorizeTransaction applied to any transaction
CatInit == pc = "init" /\ tx \in CatInputs /\ catResult = Null
           /\ SumIdle /\ MapIdle /\ PostIdle /\ TwinIdle /\ PageIdle

Categorize ==
    /\ pc = "init"
    /\ catResult' = categorizeTransaction(tx)
    /\ pc' = "done"
    /\ UNCHANGED <<tx, sumVars, mapVars, postVars, twinVars, pageVars>>

CatNext == Categorize

CatSpec == CatInit /\ [][CatNext]_vars

\* computeSummary applied to any transaction sequence
SumInit == pc = "init" /\ txs \in SumInputs /\ summary = Null
           /\ CatIdle /\ MapIdle /\ PostIdle /\ TwinIdle /\ PageIdle

Summarize ==
    /\ pc = "init"
    /\ summary' = computeSummary(txs)
    /\ pc' = "done"
    /\ UNCHANGED <<txs, catVars, mapVars, postVars, twinVars, pageVars>>

SumNext == Summarize

SumSpec == SumInit /\ [][SumNext]_vars

\* mapRowToTransaction applied to any row
MapInit == pc = "init" /\ row \in MapInputs /\ mapped = Null /\ today \in Dates
           /\ request = Null /\ rows = << >> /\ response = Null
           /\ CatIdle /\ SumIdle /\ TwinIdle /\ PageIdle

MapRow ==
    /\ pc = "init"
    /\ mapped' = mapRowToTransaction(row, today)
    /\ pc' = "done"
    /\ UNCHANGED <<row, catVars, sumVars, postVars, twinVars, pageVars>>

MapNext == MapRow

MapSpec == MapInit /\ [][MapNext]_vars

\* the backend's summary of any named transaction sequence
AggInit == pc = "init" /\ txs \in AggInputs /\ summary = Null
           /\ CatIdle /\ MapIdle /\ PostIdle /\ TwinIdle /\ PageIdle

Aggregate ==
    /\ pc = "init"
    /\ summary' = Summary(txs)
    /\ pc' = "done"
    /\ UNCHANGED <<txs, catVars, mapVars, postVars, twinVars, pageVars>>

AggNext == Aggregate

AggSpec == AggInit /\ [][AggNext]_vars

\* the backend's /analyze serving one upload
Analyze ==
    /\ pc = "init"
    /\ \E req \in Requests, now \in Dates :
          /\ request' = req
          /\ today' = now
          /\ rows' = PostRows(req)
          /\ response' = analyze(req, now)
    /\ pc' = "done"
    /\ UNCHANGED <<catVars, sumVars, mapVars, twinVars, pageVars>>

BackendNext == Analyze

BackendSpec == Init /\ [][BackendNext]_vars

\* POST serving the same upload twice, the two requests stepped side by side,
\* each on a processing date of its own
TwinInit == /\ pc = "init" /\ request \in TwinRequests
            /\ today = "" /\ rows = << >> /\ response = Null
            /\ twin = [pc |-> "init", today |-> "", response |-> Null]
            /\ CatIdle /\ SumIdle /\ MapIdle /\ PageIdle

TwinFirst ==
    /\ pc = "init"
    /\ \E now \in Dates :
          /\ today' = now
          /\ rows' = PostRows(request)
          /\ response' = POST(request, now)
    /\ pc' = "done"
    /\ UNCHANGED <<request, twin, catVars, sumVars, mapVars, pageVars>>

TwinSecond ==
    /\ twin.pc = "init"
    /\ \E now \in Dates :
          twin' = [pc |-> "done", today |-> now, response |-> POST(request, now)]
    /\ UNCHANGED <<pc, postVars, catVars, sumVars, mapVars, pageVars>>

TwinNext == TwinFirst \/ TwinSecond

TwinSpec == TwinInit /\ [][TwinNext]_vars

\* the page: a visitor picking files, analysing, filtering and asking for advice,
\* with the two endpoints answering in their own time
PageInit == /\ pc = "init" /\ page = InitialPage
            /\ analyzeCall = Null /\ adviceCall = Null
            /\ CatIdle /\ SumIdle /\ MapIdle /\ PostIdle /\ TwinIdle

others == <<pc, catVars, sumVars, mapVars, postVars, twinVars>>

HandleFileChange ==
    /\ \E f \in PageFiles \cup {Null} : page' = handleFileChange(page, f)
    /\ UNCHANGED <<analyzeCall, adviceCall, others>>

\* the button is disabled while `!file || loading`
HandleAnalyze ==
    /\ ~IsNull(page.file) /\ ~page.loading
    /\ page' = AnalyzeStarted(page)
    /\ analyzeCall' = [file |-> page.file]
    /\ UNCHANGED <<adviceCall, others>>

AnalyzeAnswer ==
    /\ ~IsNull(analyzeCall)
    /\ \E answer \in AnalyzeAnswers(analyzeCall.file) : page' = AnalyzeSettled(page, answer)
    /\ analyzeCall' = Null
    /\ UNCHANGED <<adviceCall, others>>

\* the button is rendered with the analysis and disabled while `aiLoading || !summary`
HandleGetAdvice ==
    /\ ShowsAnalysis(page) /\ ~page.aiLoading
    /\ page' = AdviceStarted(page)
    /\ adviceCall' = [summary |-> page.summary]
    /\ UNCHANGED <<analyzeCall, others>>

AdviceAnswer ==
    /\ ~IsNull(adviceCall)
    /\ \E answer \in AdviceAnswers : page' = AdviceSettled(page, answer)
    /\ adviceCall' = Null
    /\ UNCHANGED <<analyzeCall, others>>

SelectCategory ==
    /\ ShowsAnalysis(page)
    /\ \E c \in PageCategories : page' = [page EXCEPT !.selectedCategory = c]
    /\ UNCHANGED <<analyzeCall, adviceCall, others>>

SelectMerchant ==
    /\ ShowsAnalysis(page)
    /\ \E i \in 1..Len(HomePage_topMerchants(page.summary)) :
          page' = ToggleMerchant(page, HomePage_topMerchants(page.summary)[i].merchant)
    /\ UNCHANGED <<analyzeCall, adviceCall, others>>

ClearMerchant ==
    /\ ShowsAnalysis(page) /\ page.selectedMerchant # None
    /\ page' = [page EXCEPT !.selectedMerchant = None]
    /\ UNCHANGED <<analyzeCall, adviceCall, others>>

PageNext ==
    \/ HandleFileChange
    \/ HandleAnalyze
    \/ AnalyzeAnswer
    \/ HandleGetAdvice
    \/ AdviceAnswer
    \/ SelectCategory
    \/ SelectMerchant
    \/ ClearMerchant

PageSpec == PageInit /\ [][PageNext]_vars

\* parsePdfTextToRows applied to any extracted text
PdfInit == /\ pc = "init" /\ request \in PdfUploads
           /\ today = "" /\ rows = << >> /\ response = Null
           /\ CatIdle /\ SumIdle /\ MapIdle /\ TwinIdle /\ PageIdle

ParsePdf ==
    /\ pc = "init"
    /\ rows' = parsePdfTextToRows(request.text)
    /\ pc' = "done"
    /\ UNCHANGED <<request, today, response, catVars, sumVars, mapVars, twinVars, pageVars>>

PdfNext == ParsePdf

PdfSpec == PdfInit /\ [][PdfNext]_vars

\* the relocated route serving one request
Relocated ==
    /\ pc = "init"
    /\ \E req \in Requests :
          /\ request' = req
          /\ response' = RelocatedPOST(req)
    /\ pc' = "done"
    /\ UNCHANGED <<today, rows, catVars, sumVars, mapVars, twinVars, pageVars>>

RelocatedNext == Relocated

RelocatedSpec == Init /\ [][RelocatedNext]_vars

\* parseCsv applied to any delimited text
CsvInit == /\ pc = "init" /\ request \in CsvUploads
           /\ today = "" /\ rows = << >> /\ response = Null
           /\ CatIdle /\ SumIdle /\ MapIdle /\ TwinIdle /\ PageIdle

ParseCsv ==
    /\ pc = "init"
    /\ rows' = parseCsv(request.text)
    /\ pc' = "done"
    /\ UNCHANGED <<request, today, response, catVars, sumVars, mapVars, twinVars, pageVars>>

CsvNext == ParseCsv

CsvSpec == CsvInit /\ [][CsvNext]_vars

(***************************************************************************)
(* Claims about categorizeTransaction, under CatSpec.                      *)
(***************************************************************************)
\* the rule order as the specification lists it
RuleOrder ==
    <<"INCOME", "SUBSCRIPTION", "FOOD_DELIVERY", "RENT", "GROCERIES", "SHOPPING",
      "TRANSPORT", "UTILITIES", "BANK_FEES", "TRANSFER">>

KeywordsOf(c) ==
    CASE c = "SUBSCRIPTION"  -> SubscriptionKeywords
      [] c = "FOOD_DELIVERY" -> FoodDeliveryKeywords
      [] c = "RENT"          -> RentKeywords
      [] c = "GROCERIES"     -> GroceriesKeywords
      [] c = "SHOPPING"      -> ShoppingKeywords
      [] c = "TRANSPORT"     -> TransportKeywords
      [] c = "UTILITIES"     -> UtilitiesKeywords
      [] c = "BANK_FEES"     -> BankFeesKeywords
      [] c = "TRANSFER"      -> TransferKeywords

\* rule number i of RuleOrder matches transaction t
RuleMatches(i, t) ==
    IF RuleOrder[i] = "INCOME" THEN t.type = "CREDIT"
    ELSE TestAny(KeywordsOf(RuleOrder[i]), ToLowerCase(t.description))

MatchingRules(t) == {i \in 1..Len(RuleOrder) : RuleMatches(i, t)}

\* C1: a transaction of type CREDIT is categorized INCOME, whatever its
\* description and prior category, keyword matches included.
C1_CreditIsIncome ==
    (pc = "done" /\ tx.type = "CREDIT") => catResult.category = "INCOME"

\* a CREDIT whose description matches the subscription keywords and that came in
\* with another category has been categorized
C1_Witness ==
    /\ pc = "done" /\ tx.type = "CREDIT" /\ tx.category = "RENT"
    /\ TestAny(SubscriptionKeywords, ToLowerCase(tx.description))
    /\ catResult.category = "INCOME"

\* C6: the category assigned is that of the first rule of RuleOrder that
\* matches; a later matching rule never changes it.
C6_FirstMatchWins ==
    pc = "done" =>
        \A i \in MatchingRules(tx) :
            (\A j \in MatchingRules(tx) : i <= j) => catResult.category = RuleOrder[i]

\* a DEBIT whose description matches two keyword rules got the earlier one's category
C6_Witness ==
    /\ pc = "done" /\ tx.type = "DEBIT"
    /\ \E i, j \in MatchingRules(tx) :
          /\ i < j
          /\ \A k \in MatchingRules(tx) : i <= k
          /\ catResult.category = RuleOrder[i]
          /\ tx.category # RuleOrder[i]

\* C7: a DEBIT whose description matches no keyword rule comes out with
\* category OTHER, whatever category it came in with.
C7_DefaultIsOther ==
    (pc = "done" /\ tx.type = "DEBIT" /\ MatchingRules(tx) = {})
        => catResult.category = "OTHER"

(***************************************************************************)
(* Claims about computeSummary, under SumSpec.                             *)
(***************************************************************************)
RECURSIVE SumOfAmounts(_)
\* the sum of amount over a sequence of transactions
SumOfAmounts(ts) ==
    IF Len(ts) = 0 THEN Zero
    ELSE Add(SumOfAmounts(SubSeq(ts, 1, Len(ts) - 1)), ts[Len(ts)].amount)

RECURSIVE SumOfValues(_, _)
\* the sum of f[k] over the keys k
SumOfValues(f, keys) ==
    IF keys = {} THEN Zero
    ELSE LET k == CHOOSE k \in keys : TRUE IN Add(f[k], SumOfValues(f, keys \ {k}))

C3_Totals ==
    pc = "done" =>
        /\ summary.totalIncome = SumOfAmounts(SelectSeq(txs, LAMBDA t : t.type = "CREDIT"))
        /\ summary.totalSpending = SumOfAmounts(SelectSeq(txs, LAMBDA t : t.type # "CREDIT"))
        /\ summary.net = Sub(summary.totalIncome, summary.totalSpending)

\* a credit and a larger debit have been summarized: net is negative
C3_Witness ==
    /\ pc = "done" /\ Len(txs) = 2
    /\ txs[1].type = "CREDIT" /\ txs[2].type = "DEBIT"
    /\ summary.totalIncome = txs[1].amount
    /\ summary.totalSpending = txs[2].amount
    /\ IsNegative(summary.net)

\* C4: byCategory has exactly the 11 category keys, a category without a
\* transaction holding 0, and leaks repeats three of its entries.
C4_KeysAndLeaks ==
    pc = "done" =>
        /\ DOMAIN summary.byCategory = Category
        /\ \A c \in Category :
              (\A i \in 1..Len(txs) : txs[i].category # c) => summary.byCategory[c] = Zero
        /\ summary.leaks.bankFees = summary.byCategory["BANK_FEES"]
        /\ summary.leaks.subscriptions = summary.byCategory["SUBSCRIPTION"]
        /\ summary.leaks.foodDelivery = summary.byCategory["FOOD_DELIVERY"]

\* a subscription and a shopping debit have been summarized: the nine other
\* categories hold 0 and leaks.subscriptions is the subscription's amount
C4_Witness ==
    /\ pc = "done" /\ Len(txs) = 2
    /\ txs[1].category = "SUBSCRIPTION" /\ txs[2].category = "SHOPPING"
    /\ Cardinality(DOMAIN summary.byCategory) = 11
    /\ Cardinality({c \in Category : summary.byCategory[c] = Zero}) = 9
    /\ summary.leaks.subscriptions = txs[1].amount

(***************************************************************************)
(* Claims about mapRowToTransaction, under MapSpec.                        *)
(***************************************************************************)
\* C8: with a non-empty type column the type is CREDIT exactly when the
\* column's value contains "credit" or "cr", whatever the amount's sign; the
\* sign decides (negative is CREDIT) only without a type column.
C8_TypeColumnDecides ==
    (pc = "done" /\ ~IsNull(mapped)) =>
        IF RowTypeField(row) # ""
        THEN mapped.type = "CREDIT"
                <=> (Includes(RowTypeField(row), "credit") \/ Includes(RowTypeField(row), "cr"))
        ELSE mapped.type = "CREDIT"
                <=> IsNegative(ToNumber(CleanAmount(RowAmountStr(row))))

(***************************************************************************)
(* Claims about the pipeline, under Spec.                                  *)
(***************************************************************************)
Succeeded == pc = "done" /\ response.status = 200

\* the row is one mapRowToTransaction keeps: its cleaned amount parses to a
\* number other than zero
Accepted(r) ==
    LET a == ToNumber(CleanAmount(RowAmountStr(r))) IN ~a.nan /\ a.m # 0

\* C5: every transaction the delimited-text pipeline outputs has an amount
\* >= 0 and one of the 11 categories.
C5_AmountAndCategory ==
    (Succeeded /\ ~IsPdfUpload(request)) =>
        \A i \in 1..Len(response.body.transactions) :
            LET t == response.body.transactions[i] IN
            /\ ~t.amount.nan /\ t.amount.m >= 0
            /\ t.category \in Category

\* a delimited row with a negative amount came out with its magnitude
C5_Witness ==
    /\ Succeeded /\ ~IsPdfUpload(request)
    /\ \E i \in 1..Len(response.body.transactions) :
          LET t == response.body.transactions[i] IN
          /\ IsNegative(ToNumber(CleanAmount(RowAmountStr(t.raw))))
          /\ t.amount = Dec(199, 0)
          /\ t.category \in Category

\* C9: a PDF line whose amount token has a minus sign yields a transaction
\* with the token's magnitude as amount and type DEBIT, as the extractor
\* recorded.
C9_PdfMinusIsDebit ==
    (Succeeded /\ IsPdfUpload(request)) =>
        \A i \in 1..Len(response.body.transactions) :
            LET t == response.body.transactions[i] IN
            (Includes(Get(t.raw, "Amount"), "-") /\ Get(t.raw, "Credit/Debit") = "Debit")
                => /\ t.amount = Abs(ToNumber(CleanAmount(Get(t.raw, "Amount"))))
                   /\ t.type = "DEBIT"

\* the amount half of C9 alone
C9_PdfMinusMagnitude ==
    (Succeeded /\ IsPdfUpload(request)) =>
        \A i \in 1..Len(response.body.transactions) :
            LET t == response.body.transactions[i] IN
            Includes(Get(t.raw, "Amount"), "-")
                => t.amount = Abs(ToNumber(CleanAmount(Get(t.raw, "Amount"))))

\* C10: the rows rejected are exactly those whose cleaned amount parses to
\* zero or NaN; whenever rows were extracted the response is a success whose
\* transactions are the other rows, in order, mapped and categorized, and
\* whose summary is computed over them.
C10_RejectedRowsDropped ==
    (pc = "done" /\ Len(rows) > 0) =>
        /\ response.status = 200
        /\ DOMAIN response.body = {"transactions", "summary"}
        /\ LET ts == response.body.transactions IN
           /\ [i \in 1..Len(ts) |-> ts[i].raw] = SelectSeq(rows, Accepted)
           /\ \A i \in 1..Len(ts) :
                 ts[i] = categorizeTransaction(mapRowToTransaction(ts[i].raw, today))
           /\ response.body.summary = computeSummary(ts)
           /\ Add(response.body.summary.totalIncome, response.body.summary.totalSpending)
                  = SumOfAmounts(ts)

\* of two extracted rows, the first was rejected (amount zero or NaN) and the
\* second, of negative amount, was kept and summarized
C10_Witness ==
    /\ Succeeded /\ Len(rows) = 2
    /\ ~Accepted(rows[1]) /\ Accepted(rows[2])
    /\ IsNegative(ToNumber(CleanAmount(RowAmountStr(rows[2]))))
    /\ Len(response.body.transactions) = 1
    /\ response.body.transactions[1].raw = rows[2]
    /\ response.body.summary.totalIncome = response.body.transactions[1].amount

\* C11: when extraction yields zero rows the answer is status 400 with an
\* error string, and no summary is returned.
C11_NoRowsIs400 ==
    (pc = "done" /\ ~request.formDataThrows /\ request.hasFile
        /\ ~(IsPdfUpload(request) /\ request.pdfParseThrows)
        /\ Len(ExtractRows(request)) = 0)
    => /\ response.status = 400
       /\ DOMAIN response.body = {"error"}
       /\ response.body.error = ErrNoRows

\* a header-only delimited file was answered with 400
C11_Witness ==
    /\ pc = "done" /\ request.hasFile /\ ~IsPdfUpload(request)
    /\ Len(NonBlankLines(request.text)) = 1
    /\ rows = << >>
    /\ response.status = 400 /\ response.body.error = ErrNoRows

\* C24: a successful response carries at least one transaction; when rows
\* were extracted and every one of them is rejected, the answer is a failure.
C24_SuccessHasTransactions ==
    pc = "done" =>
        /\ response.status = 200 => Len(response.body.transactions) >= 1
        /\ (Len(rows) > 0 /\ \A i \in 1..Len(rows) : ~Accepted(rows[i]))
              => response.status # 200

\* the positions of the accepted rows, and the n-th of them
AcceptedAt == {j \in 1..Len(rows) : Accepted(rows[j])}
NthAccepted(n) ==
    CHOOSE j \in AcceptedAt : Cardinality({k \in AcceptedAt : k < j}) = n - 1

\* C26: the transactions of a successful response are an order-preserving
\* subsequence of the extracted rows: there are as many as rows minus
\* rejected rows, the n-th transaction keeps the n-th accepted row as its
\* `raw`, and the rows of later transactions stand later among the rows.
C26_OrderedSubsequence ==
    Succeeded =>
        LET ts == response.body.transactions IN
        /\ Len(ts) = Len(rows) - Cardinality((1..Len(rows)) \ AcceptedAt)
        /\ \A n \in 1..Len(ts) :
              /\ ts[n].raw = rows[NthAccepted(n)]
              /\ "raw" \in DOMAIN ts[n]
        /\ \A n \in 1..Len(ts), m \in 1..Len(ts) :
              n < m => NthAccepted(n) < NthAccepted(m)

\* two different rows, both accepted, came out as two transactions in the
\* order of the rows
C26_Witness ==
    /\ Succeeded /\ Len(rows) = 2 /\ rows[1] # rows[2]
    /\ AcceptedAt = {1, 2}
    /\ Len(response.body.transactions) = 2
    /\ response.body.transactions[1].raw = rows[1]
    /\ response.body.transactions[2].raw = rows[2]

\* C12: a response is either an error (status 400 or 500, an error string,
\* no transactions and no summary) or a success carrying transactions and
\* the summary computed over all the accepted rows.
C12_ErrorOrComplete ==
    pc = "done" =>
        \/ /\ response.status \in {400, 500}
           /\ DOMAIN response.body = {"error"}
           /\ response.body.error \in {ErrNoFile, ErrPdf, ErrNoRows, ErrFailed}
        \/ /\ response.status = 200
           /\ DOMAIN response.body = {"transactions", "summary"}
           /\ LET ts == response.body.transactions IN
              /\ [i \in 1..Len(ts) |-> ts[i].raw] = SelectSeq(rows, Accepted)
              /\ response.body.summary = computeSummary(ts)
              /\ SumOfValues(response.body.summary.byCategory, Category) = SumOfAmounts(ts)

\* pdf-parse threw: the answer is an error and nothing else
C12_Witness ==
    /\ pc = "done" /\ request.hasFile /\ request.pdfParseThrows
    /\ response.status = 400 /\ response.body.error = ErrPdf
    /\ DOMAIN response.body = {"error"}

(***************************************************************************)
(* Claims about the backend's summary, under AggSpec.                      *)
(***************************************************************************)
\* the spending of merchant m: its DEBIT transactions outside TRANSFER
SpendingOf(m) ==
    SumOfAmounts(SelectSeq(txs, LAMBDA t :
        t.type = "DEBIT" /\ t.category # "TRANSFER"
        /\ "merchant" \in DOMAIN t /\ t.merchant = m))

\* C13: topMerchants has at most 10 entries, in descending order of amount, one
\* per merchant, each amount being the sum of that merchant's DEBIT transactions
\* that are not of category TRANSFER; the page lists the same ranking.
C13_TopMerchants ==
    pc = "done" =>
        LET top == summary.topMerchants IN
        /\ Len(top) <= 10
        /\ \A i \in 1..Len(top) - 1 : ~IsNegative(Sub(top[i].amount, top[i + 1].amount))
        /\ \A i \in 1..Len(top) : top[i].amount = SpendingOf(top[i].merchant)
        /\ \A i, j \in 1..Len(top) : top[i].merchant = top[j].merchant => i = j
        /\ HomePage_topMerchants(summary) = top

\* eleven merchants spent, ten are listed, and a listed merchant's CREDIT is not
\* in its total
C13_Witness ==
    /\ pc = "done"
    /\ Cardinality({txs[i].merchant : i \in {j \in 1..Len(txs) : IsMerchantSpend(txs[j])}}) = 11
    /\ Len(summary.topMerchants) = 10
    /\ summary.topMerchants[1].amount = Dec(1000, 0)
    /\ \E i \in 1..Len(txs), k \in 1..10 :
          /\ txs[i].type = "CREDIT" /\ HasMerchant(txs[i])
          /\ summary.topMerchants[k].merchant = txs[i].merchant

\* the calendar month of the dates the statements carry
CalendarMonth(date) ==
    CASE date \in {"01 Oct, 2025", "03/10/2025", "01-10-2025"} -> "2025-10"
      [] date \in {"15-11-2025", "2025-11-03"}                 -> "2025-11"
      [] date = "31 Dec, 2024"                                 -> "2024-12"
      [] OTHER                                                 -> ""

InMonth(k) == SelectSeq(txs, LAMBDA t : CalendarMonth(t.date) = k)

IsYearMonth(k) ==
    /\ Len(k) = 7 /\ Char(k, 5) = "-"
    /\ \A i \in {1, 2, 3, 4, 6, 7} : Char(k, i) \in {Char(Digits, d) : d \in 1..10}

SlashesOf(d) ==
    LET at == {i \in 1..Len(d) : Char(d, i) = "/"} IN
    [n \in 1..Cardinality(at) |->
        CHOOSE i \in at : Cardinality({j \in at : j < i}) = n - 1]

\* d reads PREFIX/NAME/REFERENCE/NOTE with a name that is not blank
IsSlashForm(d) ==
    /\ Len(SlashesOf(d)) >= 3
    /\ Trim(SubSeq(d, SlashesOf(d)[1] + 1, SlashesOf(d)[2] - 1)) # ""

\* C17: a transaction whose description reads PREFIX/NAME/REFERENCE/NOTE has
\* the second field, NAME, as its merchant.
C17_SlashFormMerchant ==
    (pc = "done" /\ response.status = 200) =>
        \A i \in 1..Len(response.body.transactions) :
            LET t == response.body.transactions[i]
                d == t.description
            IN  IsSlashForm(d) =>
                    /\ "merchant" \in DOMAIN t
                    /\ t.merchant = Trim(SubSeq(d, SlashesOf(d)[1] + 1, SlashesOf(d)[2] - 1))

\* the UPI line of a PDF statement came out with merchant DEVRAJ VERMA
C17_Witness ==
    /\ pc = "done" /\ response.status = 200
    /\ \E i \in 1..Len(response.body.transactions) :
          LET t == response.body.transactions[i] IN
          /\ StartsWith(t.description, "UPI/DEVRAJ VERMA/29xxxx/Sent using Paytm")
          /\ "merchant" \in DOMAIN t
          /\ t.merchant = "DEVRAJ VERMA"

(***************************************************************************)
(* Claims about two runs on the same upload, under TwinSpec.               *)
(***************************************************************************)
BothDone == pc = "done" /\ twin.pc = "done"

\* C15: two runs on the same upload, each on any processing date, end with the
\* same status and, when they succeed, with equal totalIncome, totalSpending,
\* net, byCategory and leaks.
C15_SameSummaryTwice ==
    BothDone =>
        /\ response.status = twin.response.status
        /\ response.status = 200 =>
              LET a == response.body.summary
                  b == twin.response.body.summary
              IN  /\ a.totalIncome = b.totalIncome
                  /\ a.totalSpending = b.totalSpending
                  /\ a.net = b.net
                  /\ a.byCategory = b.byCategory
                  /\ a.leaks = b.leaks

\* a row without a date column handled on two different days: the two runs
\* date it differently and still agree on a summary that is not empty
C15_Witness ==
    /\ BothDone /\ response.status = 200 /\ twin.response.status = 200
    /\ today # twin.today
    /\ Len(response.body.transactions) = 1
    /\ response.body.transactions[1].date = today
    /\ twin.response.body.transactions[1].date = twin.today
    /\ response.body.summary = twin.response.body.summary
    /\ ~IsFalsyNumber(response.body.summary.totalSpending)

(***************************************************************************)
(* Claims about the page, under PageSpec.                                  *)
(***************************************************************************)
\* a step of handleGetAdvice: the click, or the answer that ends in the catch
AdviceAsked == IsNull(adviceCall) /\ ~IsNull(adviceCall')
AdviceFailed == ~IsNull(adviceCall) /\ IsNull(adviceCall') /\ page'.aiError # None

\* C16: a step of an advice request that fails (the click, then the failing
\* answer) changes no cell of the page but aiError and aiLoading; the summary
\* and the transactions stay as they were and stay on screen.
C16_AdviceFailureFrame ==
    [][(AdviceAsked \/ AdviceFailed) =>
          /\ \A k \in DOMAIN page \ {"aiError", "aiLoading"} : page'[k] = page[k]
          /\ page'.summary = page.summary
          /\ page'.transactions = page.transactions
          /\ ShowsAnalysis(page) => ShowsAnalysis(page')]_vars

\* an advice request has failed and the analysis is still on screen
C16_Witness ==
    /\ IsNull(adviceCall) /\ page.aiError # None /\ ~page.aiLoading
    /\ ShowsAnalysis(page) /\ Len(page.transactions) = 1
    /\ page.summary.byCategory["FOOD_DELIVERY"] = Dec(450, 0)

\* the summary s is what the backend answers for the file f
ComputedFrom(s, f) ==
    /\ ~IsNull(f)
    /\ s \in {r.body.summary : r \in {q \in {analyze(f, now) : now \in Dates} : q.status = 200}}

\* `aiAdvice && !aiError` inside `summary && (...)`: the advice is on screen
ShowsAdvice(p) == ShowsAnalysis(p) /\ p.aiAdvice # None /\ p.aiError = None

\* the answer of an advice request arrives and its advice is put on the page
AdviceInstalled == ~IsNull(adviceCall) /\ IsNull(adviceCall') /\ page'.aiError = None

\* C25: after every step, a summary on screen was computed from the file
\* now selected, and advice on screen was computed from the summary now on
\* screen: advice that has just arrived was asked for with this summary, and
\* advice that stays is still beside the summary it was shown with.
C25_NothingStale ==
    [][/\ ShowsAnalysis(page') => ComputedFrom(page'.summary, page'.file)
       /\ ShowsAdvice(page') =>
              IF AdviceInstalled THEN adviceCall.summary = page'.summary
              ELSE page'.aiAdvice = page.aiAdvice /\ page'.summary = page.summary]_vars

(***************************************************************************)
(* Claims about delimited uploads, under Spec.                             *)
(***************************************************************************)
\* the cells of the single data line of a two-line CSV upload
DataCells == Split(NonBlankLines(request.text)[2], ",")

\* a CSV upload of the header Date,Description,Amount,Type and one data row of
\* type Debit, a positive amount and a food-delivery description
IsScenarioA ==
    /\ ~request.formDataThrows /\ request.hasFile /\ ~IsPdfUpload(request)
    /\ Len(NonBlankLines(request.text)) = 2
    /\ NonBlankLines(request.text)[1] = "Date,Description,Amount,Type"
    /\ Len(DataCells) = 4
    /\ DataCells[4] = "Debit"
    /\ DataCells[3] # "" /\ \A i \in 1..Len(DataCells[3]) :
            IsDigit(Char(DataCells[3], i)) \/ Char(DataCells[3], i) = "."
    /\ ~IsFalsyNumber(ToNumber(DataCells[3]))
    /\ \E k \in {"swiggy", "zomato", "blinkit", "eats", "foodpanda"} :
            Includes(ToLowerCase(DataCells[2]), k)
    /\ \A k \in {"netflix", "spotify", "youtube premium", "hotstar", "prime", "zee5",
                  "subscription", "renewal"} :
            ~Includes(ToLowerCase(DataCells[2]), k)

\* C18: such an upload gives exactly one transaction, of type DEBIT, category
\* FOOD_DELIVERY and the row's amount A, and byCategory.FOOD_DELIVERY = A.
C18_ScenarioA ==
    (pc = "done" /\ IsScenarioA) =>
        /\ response.status = 200
        /\ Len(response.body.transactions) = 1
        /\ response.body.transactions[1].type = "DEBIT"
        /\ response.body.transactions[1].category = "FOOD_DELIVERY"
        /\ response.body.transactions[1].amount = ToNumber(DataCells[3])
        /\ response.body.summary.byCategory["FOOD_DELIVERY"] = ToNumber(DataCells[3])

\* the row 01-10-2025,SWIGGY ORDER,450,Debit came out as one transaction of 450
C18_Witness ==
    /\ pc = "done" /\ IsScenarioA
    /\ NonBlankLines(request.text)[2] = "01-10-2025,SWIGGY ORDER,450,Debit"
    /\ Len(response.body.transactions) = 1
    /\ response.body.transactions[1].amount = Dec(450, 0)
    /\ response.body.summary.byCategory["FOOD_DELIVERY"] = Dec(450, 0)

(***************************************************************************)
(* Claims about parsePdfTextToRows, under PdfSpec.                         *)
(***************************************************************************)
\* the whitespace-separated tokens of a line
TokensOf(line) == SplitSpaces(line)

\* DD Mon, YYYY: two digits, three word characters and a comma, four digits
IsDatedLine(line) ==
    LET tk == TokensOf(line) IN
    /\ Len(tk) >= 3
    /\ Len(tk[1]) = 2 /\ \A i \in 1..2 : IsDigit(Char(tk[1], i))
    /\ Len(tk[2]) = 4 /\ \A i \in 1..3 : IsWordChar(Char(tk[2], i))
    /\ Char(tk[2], 4) = ","
    /\ Len(tk[3]) = 4 /\ \A i \in 1..4 : IsDigit(Char(tk[3], i))

\* a line that may give a row
IsRowLine(line) ==
    Len(TokensOf(line)) >= 5 /\ IsDatedLine(line) /\ ~IsPdfHeaderLine(line)

RowLines == SelectSeq(NonBlankLines(request.text), IsRowLine)

\* the positions of the tokens of a line that contain a digit
DigitPositions(line) ==
    {i \in 1..Len(TokensOf(line)) :
        \E j \in 1..Len(TokensOf(line)[i]) : IsDigit(Char(TokensOf(line)[i], j))}

LastOf(S) == CHOOSE i \in S : \A j \in S : j <= i

\* C19: the k-th row comes from the k-th row line; its Balance is the last
\* token of that line with a digit, its Amount the second-to-last such token,
\* and its Description the tokens after the third and before the amount token,
\* joined by single spaces, or UNKNOWN TRANSACTION when there is none.
C19_PdfRowFields ==
    pc = "done" =>
        /\ Len(rows) = Len(RowLines)
        /\ \A k \in 1..Len(rows) :
              LET line    == RowLines[k]
                  tk      == TokensOf(line)
                  balance == LastOf(DigitPositions(line))
                  amount  == LastOf(DigitPositions(line) \ {balance})
                  between == SubSeq(tk, 4, amount - 1)
              IN  /\ Get(rows[k], "Balance") = tk[balance]
                  /\ Get(rows[k], "Amount") = tk[amount]
                  /\ Get(rows[k], "Description") =
                        IF Len(between) = 0 THEN "UNKNOWN TRANSACTION"
                        ELSE Join(between, " ")

\* a description of several tokens, one of them with a digit, and a row with
\* no description at all
C19_Witness ==
    /\ pc = "done" /\ Len(rows) = 2
    /\ Get(rows[1], "Description") = "RENT 2 BHK flat"
    /\ Get(rows[1], "Amount") = "-12,000.00"
    /\ Get(rows[1], "Balance") = "7,478.38"
    /\ Get(rows[2], "Description") = "UNKNOWN TRANSACTION"
    /\ Get(rows[2], "Amount") = "-10.00"
    /\ Get(rows[2], "Balance") = "500.00"

\* C20: the rows are those of the lines with at least 5 tokens, a DD Mon, YYYY
\* date in the first three and no header vocabulary, one row per such line and
\* in the order of the lines; every other line gives no row.
C20_PdfRowLines ==
    pc = "done" =>
        /\ Len(rows) = Len(RowLines)
        /\ \A k \in 1..Len(rows) :
              /\ Get(rows[k], "Date") = Join(SubSeq(TokensOf(RowLines[k]), 1, 3), " ")
              /\ \E i \in DigitPositions(RowLines[k]) :
                    Get(rows[k], "Balance") = TokensOf(RowLines[k])[i]
        /\ \A i \in 1..Len(NonBlankLines(request.text)) :
              ~IsRowLine(NonBlankLines(request.text)[i]) =>
                  PdfLineRows(NonBlankLines(request.text)[i]) = << >>

\* a dated line of four tokens is passed over and the line after it gives the
\* only row
C20_Witness ==
    /\ pc = "done"
    /\ NonBlankLines(request.text) =
          <<"05 Nov, 2025 -10.00", "02 Nov, 2025  NETFLIX.COM -649.00 19,478.38">>
    /\ Len(rows) = 1
    /\ Get(rows[1], "Date") = "02 Nov, 2025"
    /\ Get(rows[1], "Description") = "NETFLIX.COM"

\* C23: the Amount of every row is a digit-bearing token of its line that
\* stands after the three date tokens (0-based index 3 or more) and before
\* the balance token: the day and the year are never the amount.
C23_AmountAfterDate ==
    pc = "done" =>
        /\ Len(rows) = Len(RowLines)
        /\ \A k \in 1..Len(rows) :
              \E i \in DigitPositions(RowLines[k]) :
                  /\ i - 1 >= 3
                  /\ i < LastOf(DigitPositions(RowLines[k]))
                  /\ Get(rows[k], "Amount") = TokensOf(RowLines[k])[i]


(***************************************************************************)
(* Claims about parseCsv, under CsvSpec.                                   *)
(***************************************************************************)
\* the non-blank lines of the parsed text, the header names and the fields
CsvFileLines == NonBlankLines(request.text)
HeaderNames ==
    LET h == Split(CsvFileLines[1], ",") IN [i \in 1..Len(h) |-> Trim(h[i])]
FieldOf(n, i) ==
    LET cols == Split(CsvFileLines[n + 1], ",") IN
    IF i <= Len(cols) THEN Trim(cols[i]) ELSE ""
KeysOf(r) == {r[k].key : k \in 1..Len(r)}
\* the last column that carries the name of column i
LastNamed(i) ==
    CHOOSE j \in 1..Len(HeaderNames) :
        /\ HeaderNames[j] = HeaderNames[i]
        /\ \A k \in (j + 1)..Len(HeaderNames) : HeaderNames[k] # HeaderNames[i]
RowsShape ==
    IF Len(CsvFileLines) < 2 THEN rows = << >>
    ELSE /\ Len(rows) = Len(CsvFileLines) - 1
         /\ \A n \in 1..Len(rows) : KeysOf(rows[n]) = {HeaderNames[i] : i \in 1..Len(HeaderNames)}

\* C21 as stated: the first non-blank line is the header, every later
\* non-blank line gives one row, in order, and the row maps the i-th header
\* name to the trimmed i-th field of its line ("" when the field is missing,
\* fields beyond the header ignored); under two non-blank lines, no rows.
C21_EveryColumn ==
    pc = "done" =>
        /\ RowsShape
        /\ \A n \in 1..Len(rows) : \A i \in 1..Len(HeaderNames) :
               Get(rows[n], HeaderNames[i]) = FieldOf(n, i)

\* C21 amended: as above, but a header name that names several columns is
\* mapped to the trimmed field of the last of them.
C21_LastColumnOfName ==
    pc = "done" =>
        /\ RowsShape
        /\ \A n \in 1..Len(rows) : \A i \in 1..Len(HeaderNames) :
               Get(rows[n], HeaderNames[i]) = FieldOf(n, LastNamed(i))

\* two rows in line order, from a line with a missing field, a line with
\* an extra field or a padded field, under a header with a repeated name
C21_Witness ==
    /\ pc = "done" /\ Len(rows) = 2
    /\ \E i \in 1..Len(HeaderNames) : LastNamed(i) # i
    /\ Len(Split(CsvFileLines[2], ",")) > Len(HeaderNames)
    /\ Len(Split(CsvFileLines[3], ",")) < Len(HeaderNames)
    /\ \E i \in 1..Len(HeaderNames) :
           /\ i <= Len(Split(CsvFileLines[2], ","))
           /\ Split(CsvFileLines[2], ",")[i] # FieldOf(1, i)


(***************************************************************************)
(* Claims about the relocated route, under RelocatedSpec.                  *)
(***************************************************************************)
\* C22: whatever the request holds, the relocated route answers with status
\* 410 and a body whose only member is a non-empty `error` string: no
\* transactions and no summary are returned.
C22_AlwaysGone ==
    pc = "done" =>
        /\ response.status = 410
        /\ DOMAIN response.body = {"error"}
        /\ Len(response.body.error) > 0

\* an upload the former handler analysed with status 200 is answered 410
C22_Witness ==
    /\ pc = "done" /\ request.hasFile /\ ~request.formDataThrows
    /\ POST(request, "2025-11-03").status = 200
    /\ Len(POST(request, "2025-11-03").body.transactions) > 0
    /\ response.status = 410

====
